---- MODULE Spec2Model ----
(***************************************************************************)
(* Handle validation of a shader IR module (src/valid/handles.rs):         *)
(* Validator::validate_module_handles walks the arenas of a module and     *)
(* returns Ok, a bad-handle error or a forward-dependency error.           *)
(*                                                                         *)
(* A handle is its raw NonZeroU32 value (1 for the first entity of an      *)
(* arena).  An arena is the sequence of its entities; the entity of handle *)
(* h is arena[h].  Option<T> is a sequence of length at most one.          *)
(***************************************************************************)
EXTENDS Integers, Sequences, FiniteSets, TLC

None == <<>>
Some(x) == <<x>>

(***************************************************************************)
(* Results.  A panic (unwrap of a None) is an outcome of its own: the call *)
(* returns neither Ok nor an error.                                        *)
(***************************************************************************)
Ok == [kind |-> "Ok"]
Panic == [kind |-> "Panic"]
\* arena::BadHandle: the arena the handle was looked up in and the handle
BadHandle(arena, handle) == [kind |-> "Bad", arena |-> arena, handle |-> handle]
\* FwdDepError { subject, depends_on }, wrapped in InvalidHandleError::ForwardDependency
FwdDepError(subject, depends_on) ==
    [kind |-> "ForwardDependency", subject |-> subject, depends_on |-> depends_on]

\* The `?` operator over a sequence of checks made in order: the first
\* result that is not Ok is returned and the checks after it are not made.
RECURSIVE Try(_)
Try(results) ==
    IF results = <<>> THEN Ok
    ELSE IF Head(results) # Ok THEN Head(results)
    ELSE Try(Tail(results))

(***************************************************************************)
(* Handle and Arena primitives (crate::arena).                             *)
(***************************************************************************)
\* Handle::index: the zero-based position of the entity in the arena
index(handle) == handle - 1

\* NonZeroU32::new: None for zero
NonZeroU32_new(n) == IF n = 0 THEN None ELSE Some(n)

\* Arena::check_contains_handle
check_contains_handle(arena, arena_name, handle) ==
    IF index(handle) < Len(arena) THEN Ok ELSE BadHandle(arena_name, handle)

(***************************************************************************)
(* Handle descriptors and their descriptions.                              *)
(***************************************************************************)
HandleDescriptor_new(handle, description) ==
    [handle |-> handle, description |-> description]

\* KindAndMaybeName::from_type(type_).with_name(name)
KindAndMaybeName(kind, name) ==
    [form |-> "KindAndMaybeName", kind |-> kind, name |-> name]

\* ExpressionHandleDescription { kind }: displayed as "<kind> expression"
ExpressionHandleDescription(kind) ==
    [form |-> "ExpressionHandleDescription", kind |-> kind, name |-> None]

\* a &'static str used as a description
StrDescription(kind) == [form |-> "str", kind |-> kind, name |-> None]

desc_name_defer_kind(name, handle, type_) ==
    HandleDescriptor_new(handle, KindAndMaybeName(type_, name))

desc(handle, kind) == HandleDescriptor_new(handle, StrDescription(kind))

\* the closure `expr` of validate_expressions
expr(handle, kind) == HandleDescriptor_new(handle, ExpressionHandleDescription(kind))

\* the closure `expr_opt` of validate_expressions
expr_opt(opt, kind) == IF opt = None THEN None ELSE Some(expr(opt[1], kind))

\* HandleDescriptor::into_erased: the erased handle is rebuilt from
\* handle.index() through NonZeroU32::new(..).unwrap(), which panics on 0.
into_erased(self) ==
    LET raw == NonZeroU32_new(index(self.handle))
    IN  IF raw = None THEN Panic
        ELSE [handle |-> raw[1], description |-> self.description]

\* check_dep with the comparison /= in place of <
check_dep_not_equal(self, depends_on) ==
    IF depends_on.handle # self.handle THEN Ok
    ELSE LET subject == into_erased(self)
             dependency == into_erased(depends_on)
         IN  IF subject = Panic \/ dependency = Panic THEN Panic
             ELSE FwdDepError(subject, dependency)

\* check_dep with the comparison <= in place of <
check_dep_or_equal(self, depends_on) ==
    IF depends_on.handle <= self.handle THEN Ok
    ELSE LET subject == into_erased(self)
             dependency == into_erased(depends_on)
         IN  IF subject = Panic \/ dependency = Panic THEN Panic
             ELSE FwdDepError(subject, dependency)

\* HandleDescriptor::check_dep
check_dep(self, depends_on) ==
    IF depends_on.handle < self.handle THEN Ok
    ELSE LET subject == into_erased(self)
             dependency == into_erased(depends_on)
         IN  IF subject = Panic \/ dependency = Panic THEN Panic
             ELSE FwdDepError(subject, dependency)

\* HandleDescriptor::check_dep_opt
check_dep_opt(self, depends_on) ==
    IF depends_on = None THEN Ok ELSE check_dep(self, depends_on[1])

\* iterator.try_fold(this_handle, HandleDescriptor::check_dep)
RECURSIVE try_fold_check_dep(_, _)
try_fold_check_dep(this_handle, deps) ==
    IF deps = <<>> THEN Ok
    ELSE LET r == check_dep(this_handle, Head(deps))
         IN  IF r # Ok THEN r ELSE try_fold_check_dep(this_handle, Tail(deps))

\* sequence map
Map(f(_), s) == [k \in 1..Len(s) |-> f(s[k])]

(***************************************************************************)
(* Per-entity checks of validate_module_handles.                           *)
(***************************************************************************)
LeafTypeTags == {"Scalar", "Vector", "Matrix", "ValuePointer", "Atomic", "Image", "Sampler"}

\* the closure given to types.iter().try_for_each
validate_type_entry(handle, type_) ==
    LET inner == type_.inner
        member_desc(member) == desc_name_defer_kind(member.name, member.ty, "member type")
    IN  CASE inner.tag \in LeafTypeTags -> Ok
          [] inner.tag = "Pointer" ->
                check_dep(desc_name_defer_kind(type_.name, handle, "pointer type"),
                          HandleDescriptor_new(inner.base, StrDescription("base type")))
          [] inner.tag = "Array" ->
                check_dep(desc_name_defer_kind(type_.name, handle, "array type"),
                          HandleDescriptor_new(inner.base, StrDescription("base type")))
          [] inner.tag = "Struct" ->
                try_fold_check_dep(desc_name_defer_kind(type_.name, handle, "structure"),
                                   Map(member_desc, inner.members))
          [] inner.tag = "BindingArray" ->
                check_dep(desc_name_defer_kind(type_.name, handle, "binding array type"),
                          HandleDescriptor_new(inner.base, StrDescription("base type")))

\* validate_type looking the handle up in the constants arena
validate_type_in_constants(m, type_handle) ==
    check_contains_handle(m.constants, "constants", type_handle)

\* the closure validate_type
validate_type(m, type_handle) == check_contains_handle(m.types, "types", type_handle)

\* the closure validate_constant
validate_constant(m, constant_handle) ==
    check_contains_handle(m.constants, "constants", constant_handle)

\* the constant check with the ordering checks of the components made before
\* the existence check of the type
validate_constant_entry_components_first(m, handle, constant) ==
    LET inner == constant.inner
        component_desc(component) == desc_name_defer_kind(None, component, "component")
    IN  CASE inner.tag = "Scalar" -> Ok
          [] inner.tag = "Composite" ->
                Try(<<try_fold_check_dep(
                          desc_name_defer_kind(constant.name, handle, "constant"),
                          Map(component_desc, inner.components)),
                      validate_type(m, inner.ty)>>)

\* the constant check with a lookup of every component in the constants
\* arena before the ordering checks
validate_constant_entry_lookup(m, handle, constant) ==
    LET inner == constant.inner
        component_desc(component) == desc_name_defer_kind(None, component, "component")
        lookup(component) == validate_constant(m, component)
    IN  CASE inner.tag = "Scalar" -> Ok
          [] inner.tag = "Composite" ->
                Try(<<validate_type(m, inner.ty),
                      Try(Map(lookup, inner.components)),
                      try_fold_check_dep(
                          desc_name_defer_kind(constant.name, handle, "constant"),
                          Map(component_desc, inner.components))>>)

\* the closure given to constants.iter().try_for_each
validate_constant_entry(m, handle, constant) ==
    LET inner == constant.inner
        component_desc(component) == desc_name_defer_kind(None, component, "component")
    IN  CASE inner.tag = "Scalar" -> Ok
          [] inner.tag = "Composite" ->
                Try(<<validate_type(m, inner.ty),
                      try_fold_check_dep(
                          desc_name_defer_kind(constant.name, handle, "constant"),
                          Map(component_desc, inner.components))>>)

\* the global variable check without the check of the initializer
validate_global_variable_type_only(m, global_variable) ==
    validate_type(m, global_variable.ty)

\* the closure given to global_variables.iter().try_for_each
validate_global_variable_entry(m, global_variable) ==
    Try(<<validate_type(m, global_variable.ty),
          IF global_variable.init # None
          THEN validate_constant(m, global_variable.init[1]) ELSE Ok>>)

\* the closure given to local_variables.iter().try_for_each
validate_local_variable_entry(m, local_variable) ==
    Try(<<validate_type(m, local_variable.ty),
          IF local_variable.init # None
          THEN validate_constant(m, local_variable.init[1]) ELSE Ok>>)

\* the ImageSample arm with the check of the offset constant made last
validate_image_sample_offset_last(m, this_handle, expression) ==
    LET self == expr(this_handle, "image sample")
    IN  Try(<<check_dep(self, expr(expression.image, "image")),
              check_dep(self, expr(expression.sampler, "sampler")),
              check_dep(self, expr(expression.coordinate, "coordinate")),
              check_dep_opt(self, expr_opt(expression.array_index, "array index")),
              check_dep_opt(self, expr_opt(expression.depth_ref, "depth reference")),
              IF expression.offset # None
              THEN validate_constant(m, expression.offset[1]) ELSE Ok>>)

\* the Expression::ImageSample arm of the match in validate_expressions
validate_image_sample(m, this_handle, expression) ==
    LET self == expr(this_handle, "image sample")
    IN  Try(<<IF expression.offset # None
              THEN validate_constant(m, expression.offset[1]) ELSE Ok,
              check_dep(self, expr(expression.image, "image")),
              check_dep(self, expr(expression.sampler, "sampler")),
              check_dep(self, expr(expression.coordinate, "coordinate")),
              check_dep_opt(self, expr_opt(expression.array_index, "array index")),
              check_dep_opt(self, expr_opt(expression.depth_ref, "depth reference"))>>)

\* the closure given to expressions.iter().try_for_each in validate_expressions
validate_expression_entry(m, local_variables, this_handle, expression) ==
    LET this_expr(kind) == expr(this_handle, kind)
        component_desc(component) == expr(component, "component")
        tag == expression.tag
    IN  CASE tag \in {"Access", "AccessIndex"} ->
                check_dep(this_expr("access"), expr(expression.base, "access base"))
          [] tag = "Constant" -> validate_constant(m, expression.constant)
          [] tag = "Splat" ->
                check_dep(this_expr("splat"), expr(expression.value, "splat value"))
          [] tag = "Swizzle" ->
                check_dep(this_expr("swizzle"), expr(expression.vector, "vector"))
          [] tag = "Compose" ->
                Try(<<validate_type(m, expression.ty),
                      try_fold_check_dep(this_expr("composite"),
                                         Map(component_desc, expression.components))>>)
          [] tag = "FunctionArgument" -> Ok
          [] tag = "GlobalVariable" ->
                check_contains_handle(m.global_variables, "global_variables",
                                      expression.global_variable)
          [] tag = "LocalVariable" ->
                check_contains_handle(local_variables, "local_variables",
                                      expression.local_variable)
          [] tag = "Load" ->
                check_dep(this_expr("load"), expr(expression.pointer, "pointee"))
          [] tag = "ImageSample" -> validate_image_sample(m, this_handle, expression)
          [] tag = "ImageLoad" ->
                Try(<<check_dep(this_expr("image load"), expr(expression.image, "image")),
                      check_dep(this_expr("image load"),
                                expr(expression.coordinate, "coordinate")),
                      check_dep_opt(this_expr("image load"),
                                    expr_opt(expression.array_index, "array index")),
                      check_dep_opt(this_expr("image load"),
                                    expr_opt(expression.sample, "sample index")),
                      check_dep_opt(this_expr("image load"),
                                    expr_opt(expression.level, "level of detail"))>>)
          [] tag = "ImageQuery" ->
                Try(<<check_dep(this_expr("image query"), expr(expression.image, "image")),
                      check_dep_opt(this_expr("image query"),
                                    IF expression.query.tag = "Size"
                                    THEN expr_opt(expression.query.level, "level of detail")
                                    ELSE None)>>)
          [] tag = "Unary" ->
                check_dep(this_expr("unary"), expr(expression.expr, "unary operand"))
          [] tag = "Binary" ->
                Try(<<check_dep(this_expr("binary"), expr(expression.left, "left operand")),
                      check_dep(this_expr("binary"), expr(expression.right, "right operand"))>>)
          [] tag = "Select" ->
                \* the source's kind string has backquotes around the word select
                LET self == desc(this_handle, "select function call")
                IN  Try(<<check_dep(self, expr(expression.condition, "condition")),
                          check_dep(self, expr(expression.accept, "accept")),
                          check_dep(self, expr(expression.reject, "reject"))>>)
          [] tag = "Derivative" ->
                check_dep(this_expr("derivative"), expr(expression.expr, "argument"))
          [] tag = "Relational" ->
                check_dep(desc(this_handle, "relational function call"),
                          expr(expression.argument, "argument"))
          [] tag = "Math" ->
                LET self == desc(this_handle, "math function call")
                IN  Try(<<check_dep(self, expr(expression.arg, "first argument")),
                          check_dep_opt(self, expr_opt(expression.arg1, "second argument")),
                          check_dep_opt(self, expr_opt(expression.arg2, "third argument")),
                          check_dep_opt(self, expr_opt(expression.arg3, "fourth argument"))>>)
          [] tag = "As" ->
                check_dep(this_expr("cast"), expr(expression.expr, "input"))
          [] tag = "CallResult" ->
                check_contains_handle(m.functions, "functions", expression.function)
          [] tag = "AtomicResult" -> Ok
          [] tag = "ArrayLength" ->
                check_dep(this_expr("array length"), expr(expression.array, "array"))

(***************************************************************************)
(* The modules validated.  Handles range over 1..MaxHandle, one more than  *)
(* the longest arena, so that every arena has out-of-range handles, the    *)
(* one just past its end included.                                         *)
(***************************************************************************)
MaxLen == 2
MaxDeps == 2
MaxHandle == MaxLen + 1
Handles == 1..MaxHandle
OptHandles == {None} \cup {Some(h) : h \in Handles}
Names == {None, Some("a")}

\* the lists of at most MaxDeps handles
HandleLists == UNION {[1..n -> Handles] : n \in 0..MaxDeps}

\* The arenas of at most MaxLen entities in which one entity is any of Rich,
\* one is any of Simple and the others are filler.
Arenas(Rich, Simple, filler) ==
    {[k \in 1..n |-> IF k = p THEN a ELSE IF k = q THEN b ELSE filler] :
        n \in 0..MaxLen, p \in 1..MaxLen, q \in 1..MaxLen, a \in Rich, b \in Simple}

Type(name, inner) == [name |-> name, inner |-> inner]
ScalarType == Type(None, [tag |-> "Scalar"])
BaseTypeTags == {"Pointer", "Array", "BindingArray"}
TypeInners ==
    {[tag |-> t] : t \in LeafTypeTags}
    \cup {[tag |-> t, base |-> b] : t \in BaseTypeTags, b \in Handles}
    \cup {[tag |-> "Struct", members |-> [k \in DOMAIN l |-> [name |-> None, ty |-> l[k]]]] :
            l \in HandleLists}
RichTypes == {Type(n, inner) : n \in Names, inner \in TypeInners}
SimpleTypes == {ScalarType} \cup {Type(None, [tag |-> "Pointer", base |-> b]) : b \in Handles}
TypeArenas == Arenas(RichTypes, SimpleTypes, ScalarType)
\* arenas of leaf types only
LeafTypeArenas == {[k \in 1..n |-> ScalarType] : n \in 0..MaxLen}

Constant(name, inner) == [name |-> name, inner |-> inner]
ScalarConstant == Constant(None, [tag |-> "Scalar"])
ConstantInners ==
    {[tag |-> "Scalar"]}
    \cup {[tag |-> "Composite", ty |-> ty, components |-> l] :
            ty \in Handles, l \in HandleLists}
RichConstants == {Constant(n, inner) : n \in Names, inner \in ConstantInners}
SimpleConstants ==
    {ScalarConstant}
    \cup {Constant(None, [tag |-> "Composite", ty |-> 1, components |-> <<c>>]) :
            c \in Handles}
ConstantArenas == Arenas(RichConstants, SimpleConstants, ScalarConstant)
ScalarConstantArenas == {[k \in 1..n |-> ScalarConstant] : n \in 0..MaxLen}

\* GlobalVariable and LocalVariable: name, ty, init
Variable(name, ty, init) == [name |-> name, ty |-> ty, init |-> init]
PlainVariable == Variable(None, 1, None)
RichVariables == {Variable(n, ty, init) : n \in Names, ty \in Handles, init \in OptHandles}
SimpleVariables == {Variable(None, ty, None) : ty \in Handles}
VariableArenas == Arenas(RichVariables, SimpleVariables, PlainVariable)
PlainVariableArenas == {[k \in 1..n |-> PlainVariable] : n \in 0..MaxLen}

\* Expressions: the fields that hold handles
OneOperand ==
    [Access |-> "base", AccessIndex |-> "base", Splat |-> "value", Swizzle |-> "vector",
     Load |-> "pointer", Unary |-> "expr", Derivative |-> "expr",
     Relational |-> "argument", As |-> "expr", ArrayLength |-> "array",
     Constant |-> "constant", GlobalVariable |-> "global_variable",
     LocalVariable |-> "local_variable", CallResult |-> "function"]
OneOperandExpressions ==
    {[x \in {"tag", OneOperand[t]} |-> IF x = "tag" THEN t ELSE h] :
        t \in DOMAIN OneOperand, h \in Handles}
FunctionArgument == [tag |-> "FunctionArgument"]
ImageQueries ==
    {[tag |-> "Size", level |-> l] : l \in OptHandles}
    \cup {[tag |-> t] : t \in {"NumLevels", "NumLayers", "NumSamples"}}
\* the expressions of S in which at most MaxDeps operands are other than
\* handle 1 or, for the optional ones, None
FewOperands(S, optional) ==
    {e \in S :
        Cardinality({x \in DOMAIN e \ ({"tag"} \cup optional) : e[x] # 1})
        + Cardinality({x \in optional : e[x] # None}) <= MaxDeps}
Expressions ==
    OneOperandExpressions
    \cup {FunctionArgument, [tag |-> "AtomicResult"]}
    \cup {[tag |-> "Compose", ty |-> ty, components |-> l] : ty \in Handles, l \in HandleLists}
    \cup FewOperands([tag : {"ImageSample"}, image : Handles, sampler : Handles,
                      coordinate : Handles, array_index : OptHandles, offset : OptHandles,
                      depth_ref : OptHandles], {"array_index", "offset", "depth_ref"})
    \cup FewOperands([tag : {"ImageLoad"}, image : Handles, coordinate : Handles,
                      array_index : OptHandles, sample : OptHandles, level : OptHandles],
                     {"array_index", "sample", "level"})
    \cup [tag : {"ImageQuery"}, image : Handles, query : ImageQueries]
    \cup [tag : {"Binary"}, left : Handles, right : Handles]
    \cup [tag : {"Select"}, condition : Handles, accept : Handles, reject : Handles]
    \cup FewOperands([tag : {"Math"}, arg : Handles, arg1 : OptHandles, arg2 : OptHandles,
                      arg3 : OptHandles], {"arg1", "arg2", "arg3"})
SimpleExpressions ==
    {FunctionArgument}
    \cup {e \in OneOperandExpressions :
            e.tag \in {"Unary", "Constant", "GlobalVariable", "LocalVariable", "CallResult"}}
\* one expression of any kind among function arguments
ExpressionArenas == Arenas(Expressions, {FunctionArgument}, FunctionArgument)
SmallExpressionArenas == Arenas(SimpleExpressions, SimpleExpressions, FunctionArgument)

\* Function: arguments are the arguments' type handles, result the result's
\* type handle, named_expressions the expression handles that are named and
\* body the expression handles the statements of the body use.
Function(name, arguments, result, local_variables, expressions, named_expressions, body) ==
    [name |-> name, arguments |-> arguments, result |-> result,
     local_variables |-> local_variables, expressions |-> expressions,
     named_expressions |-> named_expressions, body |-> body]
\* a function of local variables and expressions alone
Plain(local_variables, expressions) ==
    Function(None, <<>>, None, local_variables, expressions, <<>>, <<>>)
EmptyFunction == Plain(<<>>, <<>>)
EntryPoint(function) == [function |-> function]

Module(types, constants, global_variables, functions, entry_points) ==
    [types |-> types, constants |-> constants, global_variables |-> global_variables,
     functions |-> functions, entry_points |-> entry_points]

Leaves(n) == [k \in 1..n |-> ScalarType]
Scalars(n) == [k \in 1..n |-> ScalarConstant]
Plains(n) == [k \in 1..n |-> PlainVariable]

\* What the types arena is followed by in TypeModules: nothing, arenas without
\* a defect when there is a type, and arenas with a defect of their own.
Followers ==
    {Module(<<>>, <<>>, <<>>, <<>>, <<>>),
     Module(<<>>, Scalars(1), Plains(1), <<Plain(Plains(1), <<FunctionArgument>>)>>,
            <<EntryPoint(EmptyFunction)>>),
     Module(<<>>, <<Constant(None, [tag |-> "Composite", ty |-> MaxHandle,
                                    components |-> <<1>>])>>, <<>>, <<>>, <<>>),
     Module(<<>>, <<>>, <<Variable(None, MaxHandle, None)>>, <<>>,
            <<EntryPoint(Plain(<<>>, <<[tag |-> "Unary", expr |-> 1]>>))>>)}

\* any types arena, followed by one of Followers
TypeModules ==
    {Module(t, o.constants, o.global_variables, o.functions, o.entry_points) :
        t \in TypeArenas, o \in Followers}

\* any constants arena, over leaf types
ConstantModules ==
    {Module(Leaves(MaxLen - 1), c, <<>>, <<>>, <<>>) : c \in ConstantArenas}

\* any global variables arena, over leaf types and scalar constants
GlobalVariableModules ==
    {Module(Leaves(MaxLen), Scalars(MaxLen - 1), g, <<>>, <<>>) : g \in VariableArenas}

\* The arenas a function's local variables and expressions refer to: types,
\* constants and global variables of different lengths and without a defect.
Context(functions, entry_points) ==
    Module(Leaves(MaxLen), Scalars(MaxLen - 1), Plains(MaxLen), functions, entry_points)

Unary(h) == [tag |-> "Unary", expr |-> h]
CallResult(h) == [tag |-> "CallResult", function |-> h]

\* any expression arena, in a named function
ExpressionModules ==
    {Context(<<Plain(Plains(MaxLen - 1), e)>>, <<>>) : e \in ExpressionArenas}

\* expression arenas of simple expressions, in an entry point
EntryPointModules ==
    {Context(<<>>, <<EntryPoint(Plain(Plains(MaxLen - 1), e))>>) :
        e \in SmallExpressionArenas}

\* any local variables arena, before expressions with and without a defect
LocalVariableModules ==
    {Context(<<Plain(l, e)>>, <<>>) :
        l \in VariableArenas,
        e \in {<<FunctionArgument, Unary(1)>>, <<FunctionArgument, Unary(MaxHandle)>>}}

\* any name, arguments, result, named expressions and body
SignatureModules ==
    {Context(<<Function(n, a, r, Plains(1), e, <<>>, <<>>)>>, <<>>) :
        n \in Names, a \in HandleLists, r \in OptHandles,
        e \in {<<FunctionArgument>>, <<FunctionArgument, Unary(MaxHandle)>>}}
    \cup {Context(<<Function(None, <<>>, None, Plains(1), <<FunctionArgument>>, ne, b)>>, <<>>) :
            ne \in {<<>>, <<1>>, <<MaxHandle>>}, b \in {<<>>, <<1>>, <<MaxHandle>>}}
    \cup {Module(<<>>, <<>>, <<>>, <<>>,
                 <<EntryPoint(Function(None, a, r, <<>>, <<>>, <<>>, <<>>))>>) :
            a \in HandleLists, r \in OptHandles}

\* functions of at most one local variable and one expression
TinyFunctions ==
    {Plain(<<>>, e) :
        e \in {<<>>} \cup {<<x>> : x \in SimpleExpressions}
              \cup {<<FunctionArgument, Unary(h)>> : h \in Handles}}
    \cup {Plain(Plains(1), <<[tag |-> "LocalVariable", local_variable |-> h]>>) :
            h \in Handles}
DefectiveFunctions ==
    {EmptyFunction,
     Plain(<<Variable(None, MaxHandle, None)>>, <<>>),
     Plain(<<>>, <<FunctionArgument, Unary(MaxHandle)>>),
     Plain(<<Variable(None, MaxHandle, None)>>, <<FunctionArgument, Unary(MaxHandle)>>),
     Plain(<<>>, <<CallResult(1)>>),
     Plain(Plains(1), <<CallResult(MaxHandle)>>)}

\* several functions and entry points
FunctionModules ==
    {Context(fs, eps) :
        fs \in Arenas(TinyFunctions, DefectiveFunctions, EmptyFunction),
        eps \in {<<>>} \cup {<<EntryPoint(d)>> : d \in DefectiveFunctions}}

LocalVariableExpression(h) == [tag |-> "LocalVariable", local_variable |-> h]

\* two functions, or an entry point and a function, with local-variable arenas
\* of any lengths, each reading one local variable
ReaderModules ==
    {Context(<<Plain(Plains(n1), <<LocalVariableExpression(h1)>>),
               Plain(Plains(n2), <<FunctionArgument, LocalVariableExpression(h2)>>)>>, <<>>) :
        n1 \in 0..MaxLen, n2 \in 0..MaxLen, h1 \in Handles, h2 \in Handles}
    \cup {Context(<<Plain(Plains(n1), <<>>)>>,
                  <<EntryPoint(Plain(Plains(n2), <<LocalVariableExpression(h)>>))>>) :
            n1 \in 0..MaxLen, n2 \in 0..MaxLen, h \in Handles}

\* the modules validate_module_handles is called on
IsModule(m) ==
    \/ m \in TypeModules
    \/ m \in ConstantModules
    \/ m \in GlobalVariableModules
    \/ m \in ExpressionModules
    \/ m \in EntryPointModules
    \/ m \in LocalVariableModules
    \/ m \in SignatureModules
    \/ m \in FunctionModules
    \/ m \in ReaderModules

(***************************************************************************)
(* validate_module_handles as a state machine: one step per entity         *)
(* visited.  pc is the arena being iterated, f the function or entry point *)
(* being validated, sub the arena of that function being iterated, i the   *)
(* handle the iteration is at.  visited logs the entities the closures     *)
(* were called on, in order.                                               *)
(***************************************************************************)
VARIABLES module, pc, f, sub, i, result, visited

\* The state of a run of the xtask command line (xtask/src/main.rs): the
\* subcommand run, the position of run, the visit_files call and the glob
\* entry the iteration is at, the found_err flag, the entries the callback
\* was called on, in order, and what run returned.
VARIABLES subcommand, xpc, glob_index, entry_index, found_err, called, returned

handle_vars == <<module, pc, f, sub, i, result, visited>>
xtask_vars == <<subcommand, xpc, glob_index, entry_index, found_err, called, returned>>
vars == <<module, pc, f, sub, i, result, visited,
          subcommand, xpc, glob_index, entry_index, found_err, called, returned>>

\* no xtask subcommand is run
NoSubcommand == [which |-> "none", globs |-> <<>>]
XtaskIdle ==
    /\ subcommand = NoSubcommand
    /\ xpc = "idle"
    /\ glob_index = 1
    /\ entry_index = 1
    /\ found_err = FALSE
    /\ called = <<>>
    /\ returned = "-"

Running == [kind |-> "Running"]

Init ==
    /\ IsModule(module)
    /\ pc = "types"
    /\ f = 1
    /\ sub = "-"
    /\ i = 1
    /\ result = Running
    /\ visited = <<>>
    /\ XtaskIdle

\* the passes of validate_module_handles with the named functions before the
\* entry points
PassAfterFunctionsFirst(pass) ==
    CASE pass = "types" -> "constants"
      [] pass = "constants" -> "global_variables"
      [] pass = "global_variables" -> "functions"
      [] pass = "functions" -> "entry_points"
      [] pass = "entry_points" -> "done"

\* the order of the passes of validate_module_handles: the pass made after
\* each pass, and "done" for the final Ok(()) after the last one
PassAfter(pass) ==
    CASE pass = "types" -> "constants"
      [] pass = "constants" -> "global_variables"
      [] pass = "global_variables" -> "entry_points"
      [] pass = "entry_points" -> "functions"
      [] pass = "functions" -> "done"

\* the end of the iteration of a pass that empties the arena iterated
EndPassClearing ==
    /\ pc' = PassAfter(pc)
    /\ f' = 1
    /\ i' = 1
    /\ result' = IF PassAfter(pc) = "done" THEN Ok ELSE result
    /\ module' = [module EXCEPT ![pc] = <<>>]
    /\ UNCHANGED <<sub, visited>>

\* the end of the iteration of a pass
EndPass ==
    /\ pc' = PassAfter(pc)
    /\ f' = 1
    /\ i' = 1
    /\ result' = IF PassAfter(pc) = "done" THEN Ok ELSE result
    /\ UNCHANGED <<module, sub, visited>>

Visit(arena, owner, handle) == [arena |-> arena, owner |-> owner, handle |-> handle]

\* One iteration in which the result of a failing closure may be dropped
StepEitherWay(arena_name, r) ==
    /\ visited' = Append(visited, Visit(arena_name, <<>>, i))
    /\ \E outcome \in {r, Ok} :
          IF outcome = Ok
          THEN /\ i' = i + 1
               /\ UNCHANGED <<pc, result>>
          ELSE /\ pc' = "done"
               /\ result' = outcome
               /\ UNCHANGED i
    /\ UNCHANGED <<module, f, sub>>

\* One iteration of a try_for_each over a module arena: the closure's result r
\* on the entity at i; an error ends validate_module_handles.
Step(arena_name, r) ==
    /\ visited' = Append(visited, Visit(arena_name, <<>>, i))
    /\ IF r = Ok
       THEN /\ i' = i + 1
            /\ UNCHANGED <<pc, result>>
       ELSE /\ pc' = "done"
            /\ result' = r
            /\ UNCHANGED i
    /\ UNCHANGED <<module, f, sub>>

\* types.iter().try_for_each(..)?
ValidateTypes ==
    /\ pc = "types"
    /\ UNCHANGED xtask_vars
    /\ IF i <= Len(module.types)
       THEN Step("types", validate_type_entry(i, module.types[i]))
       ELSE EndPass

\* constants.iter().try_for_each(..)?
ValidateConstants ==
    /\ pc = "constants"
    /\ UNCHANGED xtask_vars
    /\ IF i <= Len(module.constants)
       THEN Step("constants", validate_constant_entry(module, i, module.constants[i]))
       ELSE EndPass

\* global_variables.iter().try_for_each(..)?
ValidateGlobalVariables ==
    /\ pc = "global_variables"
    /\ UNCHANGED xtask_vars
    /\ IF i <= Len(module.global_variables)
       THEN Step("global_variables",
                 validate_global_variable_entry(module, module.global_variables[i]))
       ELSE EndPass

\* the function validate_function is working on
CurrentFunction ==
    IF pc = "entry_points" THEN module.entry_points[f].function ELSE module.functions[f]

\* entry_points.iter().try_for_each(..)?: the call of validate_function on the
\* next entry point, or the end of the iteration
ValidateEntryPoints ==
    /\ pc = "entry_points"
    /\ UNCHANGED xtask_vars
    /\ sub = "-"
    /\ IF f <= Len(module.entry_points)
       THEN /\ sub' = "local_variables"
            /\ i' = 1
            /\ UNCHANGED <<module, pc, f, result, visited>>
       ELSE EndPass

\* the functions pass with a validate_function that looks the result type and
\* the argument types up in the types arena first
ValidateFunctionsWithSignature ==
    /\ pc = "functions"
    /\ UNCHANGED xtask_vars
    /\ sub = "-"
    /\ IF f <= Len(module.functions)
       THEN LET check(ty) == validate_type(module, ty)
                r == Try(<<Try(Map(check, module.functions[f].result)),
                           Try(Map(check, module.functions[f].arguments))>>)
            IN  IF r = Ok
                THEN /\ sub' = "local_variables"
                     /\ i' = 1
                     /\ UNCHANGED <<module, pc, f, result, visited>>
                ELSE /\ pc' = "done"
                     /\ result' = r
                     /\ UNCHANGED <<module, f, sub, i, visited>>
       ELSE EndPass

\* functions.iter().try_for_each(..)?: the call of validate_function on the
\* next function, or the end of the iteration and the final Ok(())
ValidateFunctions ==
    /\ pc = "functions"
    /\ UNCHANGED xtask_vars
    /\ sub = "-"
    /\ IF f <= Len(module.functions)
       THEN /\ sub' = "local_variables"
            /\ i' = 1
            /\ UNCHANGED <<module, pc, f, result, visited>>
       ELSE EndPass

\* One iteration of a try_for_each inside validate_function.
FunctionStep(r) ==
    /\ visited' = Append(visited, Visit(sub, <<pc, f>>, i))
    /\ IF r = Ok
       THEN /\ i' = i + 1
            /\ UNCHANGED <<pc, sub, result>>
       ELSE /\ pc' = "done"
            /\ sub' = "-"
            /\ result' = r
            /\ UNCHANGED i
    /\ UNCHANGED <<module, f>>

\* validate_function going to the expressions without a check of the local
\* variables
SkipLocalVariables ==
    /\ pc \in {"entry_points", "functions"}
    /\ UNCHANGED xtask_vars
    /\ sub = "local_variables"
    /\ sub' = "expressions"
    /\ i' = 1
    /\ UNCHANGED <<module, pc, f, result, visited>>

\* validate_function: local_variables.iter().try_for_each(..)?
ValidateLocalVariables ==
    /\ pc \in {"entry_points", "functions"}
    /\ UNCHANGED xtask_vars
    /\ sub = "local_variables"
    /\ IF i <= Len(CurrentFunction.local_variables)
       THEN FunctionStep(validate_local_variable_entry(module,
                                                       CurrentFunction.local_variables[i]))
       ELSE /\ sub' = "expressions"
            /\ i' = 1
            /\ UNCHANGED <<module, pc, f, result, visited>>

\* validate_expressions in which a named function sees only the functions
\* before it
ValidateExpressionsEarlierFunctions ==
    /\ pc \in {"entry_points", "functions"}
    /\ UNCHANGED xtask_vars
    /\ sub = "expressions"
    /\ IF i <= Len(CurrentFunction.expressions)
       THEN FunctionStep(validate_expression_entry(
                             IF pc = "functions"
                             THEN [module EXCEPT !.functions = SubSeq(module.functions, 1, f - 1)]
                             ELSE module,
                             CurrentFunction.local_variables,
                             i, CurrentFunction.expressions[i]))
       ELSE /\ sub' = "-"
            /\ f' = f + 1
            /\ UNCHANGED <<module, pc, i, result, visited>>

\* validate_expressions given the local variables of the first named function
ValidateExpressionsFirstLocals ==
    /\ pc \in {"entry_points", "functions"}
    /\ UNCHANGED xtask_vars
    /\ sub = "expressions"
    /\ IF i <= Len(CurrentFunction.expressions)
       THEN FunctionStep(validate_expression_entry(
                             module,
                             IF pc = "functions" THEN module.functions[1].local_variables
                             ELSE CurrentFunction.local_variables,
                             i, CurrentFunction.expressions[i]))
       ELSE /\ sub' = "-"
            /\ f' = f + 1
            /\ UNCHANGED <<module, pc, i, result, visited>>

\* validate_function: validate_expressions(expressions, local_variables)?; Ok(())
ValidateExpressions ==
    /\ pc \in {"entry_points", "functions"}
    /\ UNCHANGED xtask_vars
    /\ sub = "expressions"
    /\ IF i <= Len(CurrentFunction.expressions)
       THEN FunctionStep(validate_expression_entry(module, CurrentFunction.local_variables,
                                                   i, CurrentFunction.expressions[i]))
       ELSE /\ sub' = "-"
            /\ f' = f + 1
            /\ UNCHANGED <<module, pc, i, result, visited>>

Next ==
    \/ ValidateTypes
    \/ ValidateConstants
    \/ ValidateGlobalVariables
    \/ ValidateEntryPoints
    \/ ValidateFunctions
    \/ ValidateLocalVariables
    \/ ValidateExpressions

Spec == Init /\ [][Next]_vars

(***************************************************************************)
(* The references of a module, read off its entities.                      *)
(***************************************************************************)
Done == pc = "done"
Range(seq) == {seq[k] : k \in DOMAIN seq}
InRange(handle, arena) == handle \in 1..Len(arena)
LastVisit == visited[Len(visited)]

\* the handles of its own arena an entity refers to, in declaration order
TypeDeps(type_) ==
    CASE type_.inner.tag \in BaseTypeTags -> <<type_.inner.base>>
      [] type_.inner.tag = "Struct" ->
            [k \in DOMAIN type_.inner.members |-> type_.inner.members[k].ty]
      [] OTHER -> <<>>

ConstantDeps(constant) ==
    IF constant.inner.tag = "Composite" THEN constant.inner.components ELSE <<>>

ExpressionDeps(e) ==
    CASE e.tag \in {"Access", "AccessIndex"} -> <<e.base>>
      [] e.tag = "Splat" -> <<e.value>>
      [] e.tag = "Swizzle" -> <<e.vector>>
      [] e.tag = "Compose" -> e.components
      [] e.tag = "Load" -> <<e.pointer>>
      [] e.tag = "ImageSample" ->
            <<e.image, e.sampler, e.coordinate>> \o e.array_index \o e.depth_ref
      [] e.tag = "ImageLoad" ->
            <<e.image, e.coordinate>> \o e.array_index \o e.sample \o e.level
      [] e.tag = "ImageQuery" ->
            <<e.image>> \o (IF e.query.tag = "Size" THEN e.query.level ELSE <<>>)
      [] e.tag \in {"Unary", "Derivative", "As"} -> <<e.expr>>
      [] e.tag = "Binary" -> <<e.left, e.right>>
      [] e.tag = "Select" -> <<e.condition, e.accept, e.reject>>
      [] e.tag = "Relational" -> <<e.argument>>
      [] e.tag = "Math" -> <<e.arg>> \o e.arg1 \o e.arg2 \o e.arg3
      [] e.tag = "ArrayLength" -> <<e.array>>
      [] OTHER -> <<>>

\* the handles of other arenas an expression refers to
ExpressionTypes(e) == IF e.tag = "Compose" THEN {e.ty} ELSE {}
ExpressionConstants(e) ==
    CASE e.tag = "Constant" -> {e.constant}
      [] e.tag = "ImageSample" -> Range(e.offset)
      [] OTHER -> {}
ExpressionGlobalVariables(e) == IF e.tag = "GlobalVariable" THEN {e.global_variable} ELSE {}
ExpressionLocalVariables(e) == IF e.tag = "LocalVariable" THEN {e.local_variable} ELSE {}
ExpressionFunctions(e) == IF e.tag = "CallResult" THEN {e.function} ELSE {}

\* the functions of a module: the named ones and those of the entry points
FunctionsOf(m) ==
    Range(m.functions) \cup {m.entry_points[k].function : k \in DOMAIN m.entry_points}

\* a dependency that is not strictly below the entity's own handle
ForwardRef(handle, deps) == \E k \in DOMAIN deps : deps[k] >= handle
\* the first such dependency, in declaration order
FirstForwardRef(handle, deps) ==
    deps[CHOOSE k \in DOMAIN deps :
            /\ deps[k] >= handle
            /\ \A j \in 1..(k - 1) : deps[j] < handle]

\* the cross-arena references of an entity that are outside the populated
\* range of the arena they refer to
ConstantDangles(m, constant) ==
    constant.inner.tag = "Composite" /\ ~InRange(constant.inner.ty, m.types)
VariableDangles(m, v) ==
    \/ ~InRange(v.ty, m.types)
    \/ \E c \in Range(v.init) : ~InRange(c, m.constants)
ExpressionDangles(m, fn, e) ==
    \/ \E h \in ExpressionTypes(e) : ~InRange(h, m.types)
    \/ \E h \in ExpressionConstants(e) : ~InRange(h, m.constants)
    \/ \E h \in ExpressionGlobalVariables(e) : ~InRange(h, m.global_variables)
    \/ \E h \in ExpressionLocalVariables(e) : ~InRange(h, fn.local_variables)
    \/ \E h \in ExpressionFunctions(e) : ~InRange(h, m.functions)

\* a defect: a forward reference or a dangling cross-arena reference
TypeDefect(h, type_) == ForwardRef(h, TypeDeps(type_))
ConstantDefect(m, h, constant) ==
    ConstantDangles(m, constant) \/ ForwardRef(h, ConstantDeps(constant))
ExpressionDefect(m, fn, h, e) ==
    ExpressionDangles(m, fn, e) \/ ForwardRef(h, ExpressionDeps(e))
FunctionDefect(m, fn) ==
    \/ \E k \in DOMAIN fn.local_variables : VariableDangles(m, fn.local_variables[k])
    \/ \E k \in DOMAIN fn.expressions : ExpressionDefect(m, fn, k, fn.expressions[k])

\* the arena a visit is in, and whether the entity visited has a defect
VisitFunction(v) ==
    IF v.owner[1] = "entry_points" THEN module.entry_points[v.owner[2]].function
    ELSE module.functions[v.owner[2]]
VisitArena(v) ==
    CASE v.arena = "types" -> module.types
      [] v.arena = "constants" -> module.constants
      [] v.arena = "global_variables" -> module.global_variables
      [] v.arena = "local_variables" -> VisitFunction(v).local_variables
      [] v.arena = "expressions" -> VisitFunction(v).expressions
VisitDeps(v) ==
    CASE v.arena = "types" -> TypeDeps(module.types[v.handle])
      [] v.arena = "constants" -> ConstantDeps(module.constants[v.handle])
      [] v.arena = "expressions" -> ExpressionDeps(VisitFunction(v).expressions[v.handle])
      [] OTHER -> <<>>
DefectAt(arena_name, owner, h) ==
    LET v == Visit(arena_name, owner, h)
    IN  CASE arena_name = "types" -> TypeDefect(h, module.types[h])
          [] arena_name = "constants" -> ConstantDefect(module, h, module.constants[h])
          [] arena_name = "global_variables" ->
                VariableDangles(module, module.global_variables[h])
          [] arena_name = "local_variables" ->
                VariableDangles(module, VisitFunction(v).local_variables[h])
          [] arena_name = "expressions" ->
                ExpressionDefect(module, VisitFunction(v), h,
                                 VisitFunction(v).expressions[h])
IsError(r) == r.kind \in {"Bad", "ForwardDependency"}

(***************************************************************************)
(* Properties of validate_module_handles.                                  *)
(***************************************************************************)
FunctionHandlesResolve(m, fn) ==
    /\ \A k \in DOMAIN fn.arguments : InRange(fn.arguments[k], m.types)
    /\ \A h \in Range(fn.result) : InRange(h, m.types)
    /\ \A k \in DOMAIN fn.local_variables : ~VariableDangles(m, fn.local_variables[k])
    /\ \A k \in DOMAIN fn.expressions :
          /\ \A h \in Range(ExpressionDeps(fn.expressions[k])) : InRange(h, fn.expressions)
          /\ ~ExpressionDangles(m, fn, fn.expressions[k])
    /\ \A h \in Range(fn.named_expressions) : InRange(h, fn.expressions)
    /\ \A h \in Range(fn.body) : InRange(h, fn.expressions)

AllHandlesResolve(m) ==
    /\ \A k \in DOMAIN m.types :
          \A h \in Range(TypeDeps(m.types[k])) : InRange(h, m.types)
    /\ \A k \in DOMAIN m.constants :
          /\ ~ConstantDangles(m, m.constants[k])
          /\ \A h \in Range(ConstantDeps(m.constants[k])) : InRange(h, m.constants)
    /\ \A k \in DOMAIN m.global_variables : ~VariableDangles(m, m.global_variables[k])
    /\ \A fn \in FunctionsOf(m) : FunctionHandlesResolve(m, fn)

\* C1: when validate_module_handles returns Ok, every handle stored anywhere
\* in the module (type bases and member types, constant types and components,
\* variable types and initializers, function argument and result types,
\* expression operands, named expressions and bodies) refers to an entity
\* that exists in the arena it indexes.
C1_OkMeansAllHandlesResolve ==
    (Done /\ result = Ok) => AllHandlesResolve(module)

\* C2: for every subject and dependency handle of one arena, check_dep
\* returns Ok exactly when the dependency's ordinal is strictly less than the
\* subject's, and returns a forward-dependency error when it is equal or
\* greater.  The pairs are those of the entities validation has visited.
C2_CheckDepOkIffStrictlySmaller ==
    \A k \in DOMAIN visited :
        \A d \in Range(VisitDeps(visited[k])) :
            LET r == check_dep(desc(visited[k].handle, "subject"), desc(d, "dependency"))
            IN  /\ (r = Ok) <=> (d < visited[k].handle)
                /\ (d >= visited[k].handle) => (r.kind = "ForwardDependency")

\* the pairs (h, d) of entities of an arena where h refers to d
Edges(arena, Deps(_)) ==
    {e \in (DOMAIN arena) \X (DOMAIN arena) : e[2] \in Range(Deps(arena[e[1]]))}
\* the pairs joined by a path of at most 2^n edges of R
RECURSIVE Paths(_, _)
Paths(R, n) ==
    IF n = 0 THEN R
    ELSE Paths(R \cup {<<q[1][1], q[2][2]>> : q \in {r \in R \X R : r[1][2] = r[2][1]}},
               n - 1)
Acyclic(arena, Deps(_)) ==
    \A h \in DOMAIN arena : <<h, h>> \notin Paths(Edges(arena, Deps), Len(arena))

\* C3: when validation returns Ok, the same-arena references have no cycle of
\* any length: none among types (bases and member types), none among
\* constants (components), none among the expressions of any function or
\* entry point (ordering-checked operands).
C3_OkMeansAcyclic ==
    (Done /\ result = Ok) =>
        /\ Acyclic(module.types, TypeDeps)
        /\ Acyclic(module.constants, ConstantDeps)
        /\ \A fn \in FunctionsOf(module) : Acyclic(fn.expressions, ExpressionDeps)

\* a validated module whose types refer to one another
C3_Witness ==
    /\ Done
    /\ result = Ok
    /\ Edges(module.types, TypeDeps) # {}

FunctionWellFormed(m, fn) ==
    /\ ~FunctionDefect(m, fn)
    /\ \A k \in DOMAIN fn.arguments : InRange(fn.arguments[k], m.types)
    /\ \A h \in Range(fn.result) : InRange(h, m.types)

\* every same-arena reference points to a strictly smaller handle and every
\* cross-arena reference points inside the arena it refers to
WellFormed(m) ==
    /\ \A k \in DOMAIN m.types : ~TypeDefect(k, m.types[k])
    /\ \A k \in DOMAIN m.constants : ~ConstantDefect(m, k, m.constants[k])
    /\ \A k \in DOMAIN m.global_variables : ~VariableDangles(m, m.global_variables[k])
    /\ \A fn \in FunctionsOf(m) : FunctionWellFormed(m, fn)

\* C4: no false positives: a module in which every same-arena reference
\* points to a strictly smaller handle and every cross-arena reference points
\* inside the populated range of its arena validates with Ok.
C4_WellFormedMeansOk ==
    (Done /\ WellFormed(module)) => result = Ok

\* a well-formed module with an image sample that has an offset constant
C4_Witness ==
    /\ Done
    /\ WellFormed(module)
    /\ result = Ok
    /\ \E fn \in FunctionsOf(module) :
          \E k \in DOMAIN fn.expressions :
              /\ fn.expressions[k].tag = "ImageSample"
              /\ fn.expressions[k].offset # None

\* the kind a type is described by as the subject of an ordering check
TypeKind(type_) ==
    CASE type_.inner.tag = "Pointer" -> "pointer type"
      [] type_.inner.tag = "Array" -> "array type"
      [] type_.inner.tag = "BindingArray" -> "binding array type"
      [] type_.inner.tag = "Struct" -> "structure"
      [] OTHER -> "-"

\* whether the entity of a visit has a dangling cross-arena reference
VisitDangles(v) ==
    CASE v.arena = "types" -> FALSE
      [] v.arena = "constants" -> ConstantDangles(module, module.constants[v.handle])
      [] v.arena = "global_variables" ->
            VariableDangles(module, module.global_variables[v.handle])
      [] v.arena = "local_variables" ->
            VariableDangles(module, VisitFunction(v).local_variables[v.handle])
      [] v.arena = "expressions" ->
            ExpressionDangles(module, VisitFunction(v), VisitFunction(v).expressions[v.handle])

\* validation ended at an entity whose cross-arena references exist and which
\* has a dependency that is not strictly below it
EndedOnForwardRef ==
    /\ Done
    /\ result # Ok
    /\ ~VisitDangles(LastVisit)
    /\ ForwardRef(LastVisit.handle, VisitDeps(LastVisit))

\* C5: ordinal monotonicity: an entity e1 of ordinal i that refers to an
\* entity e2 of the same arena of ordinal j >= i makes validation return a
\* forward-dependency error whose subject carries exactly i and e1's kind and
\* whose dependency carries exactly j; building the error never fails, the
\* first entity of an arena included.
C5_ForwardErrorNamesSubjectAndDependency ==
    EndedOnForwardRef =>
        /\ result.kind = "ForwardDependency"
        /\ result.subject.handle = LastVisit.handle
        /\ result.depends_on.handle = FirstForwardRef(LastVisit.handle, VisitDeps(LastVisit))
        /\ LastVisit.arena = "types" =>
              /\ result.subject.description.kind = TypeKind(module.types[LastVisit.handle])
              /\ module.types[LastVisit.handle].inner.tag = "Pointer" =>
                    result.depends_on.description.kind = "base type"

\* every cross-arena reference that validation is to check exists: constant
\* to type, variable to type and initializer, expression to type, constant,
\* global variable, local variable and function
CrossRefsResolve(m) ==
    /\ \A k \in DOMAIN m.constants : ~ConstantDangles(m, m.constants[k])
    /\ \A k \in DOMAIN m.global_variables : ~VariableDangles(m, m.global_variables[k])
    /\ \A fn \in FunctionsOf(m) :
          /\ \A k \in DOMAIN fn.local_variables : ~VariableDangles(m, fn.local_variables[k])
          /\ \A k \in DOMAIN fn.expressions : ~ExpressionDangles(m, fn, fn.expressions[k])

\* no entity refers to an entity of its own arena that is not strictly below it
NoForwardRef(m) ==
    /\ \A k \in DOMAIN m.types : ~ForwardRef(k, TypeDeps(m.types[k]))
    /\ \A k \in DOMAIN m.constants : ~ForwardRef(k, ConstantDeps(m.constants[k]))
    /\ \A fn \in FunctionsOf(m) :
          \A k \in DOMAIN fn.expressions : ~ForwardRef(k, ExpressionDeps(fn.expressions[k]))

\* C6 as stated: validation returns Ok only if every cross-arena handle lies
\* within the populated range of the arena it refers to, and a handle outside
\* that range always makes validation return a bad-handle error.  (An abort by
\* panic returns nothing and is not counted against the statement here.)
C6_DanglingAlwaysBadHandle ==
    Done =>
        /\ result = Ok => CrossRefsResolve(module)
        /\ ~CrossRefsResolve(module) => result.kind \in {"Bad", "Panic"}

\* C6, amended: validation returns Ok only if every cross-arena handle lies
\* within the populated range of the arena it refers to; a handle outside that
\* range, the first position past the end included, makes validation return a
\* bad-handle error unless the module also has a same-arena forward
\* reference, whose ordering check may fail first.
C6_DanglingNeverOk ==
    Done =>
        /\ result = Ok => CrossRefsResolve(module)
        /\ (~CrossRefsResolve(module) /\ NoForwardRef(module)) => result.kind = "Bad"

\* a global variable whose initializer is the first handle past the end of
\* the constants arena is refused with a bad-handle error
C6_Witness ==
    /\ Done
    /\ NoForwardRef(module)
    /\ result = BadHandle("constants", Len(module.constants) + 1)
    /\ LastVisit.arena = "global_variables"
    /\ module.global_variables[LastVisit.handle].init = Some(Len(module.constants) + 1)

\* C7 as stated: a forward-dependency error is returned only when the
\* referenced handle resolves to an existing entity of the arena, and a
\* same-arena dependency that lies outside the arena's populated range is
\* reported as a bad-handle error.  (An abort by panic is not counted against
\* the statement here.)
C7_ForwardErrorOnlyForExisting ==
    Done =>
        /\ result.kind = "ForwardDependency" =>
              InRange(FirstForwardRef(LastVisit.handle, VisitDeps(LastVisit)),
                      VisitArena(LastVisit))
        /\ (/\ EndedOnForwardRef
            /\ ~InRange(FirstForwardRef(LastVisit.handle, VisitDeps(LastVisit)),
                        VisitArena(LastVisit)))
           => result.kind \in {"Bad", "Panic"}

\* C7, amended: a forward-dependency error is returned only when a same-arena
\* dependency is not strictly below the referencing entity, whether or not
\* the dependency exists; a bad-handle error names another arena than the one
\* being iterated and a handle outside that arena, so a same-arena dependency
\* outside the populated range is never reported as a bad handle.
C7_BadHandleOnlyAcrossArenas ==
    Done =>
        /\ result.kind = "ForwardDependency" =>
              ForwardRef(LastVisit.handle, VisitDeps(LastVisit))
        /\ result.kind = "Bad" =>
              /\ result.arena # LastVisit.arena
              /\ VisitDangles(LastVisit)
        /\ EndedOnForwardRef => result.kind # "Bad"

\* a composite constant listing a component past the end of the constants
\* arena is refused with a forward-dependency error
C7_Witness ==
    /\ Done
    /\ result.kind = "ForwardDependency"
    /\ LastVisit.arena = "constants"
    /\ FirstForwardRef(LastVisit.handle, VisitDeps(LastVisit)) > Len(module.constants)

\* the entities of the module, as the visits that check them
FunctionPositions(owner, fn) ==
    {Visit("local_variables", owner, k) : k \in DOMAIN fn.local_variables}
    \cup {Visit("expressions", owner, k) : k \in DOMAIN fn.expressions}
Positions ==
    {Visit("types", <<>>, k) : k \in DOMAIN module.types}
    \cup {Visit("constants", <<>>, k) : k \in DOMAIN module.constants}
    \cup {Visit("global_variables", <<>>, k) : k \in DOMAIN module.global_variables}
    \cup UNION {FunctionPositions(<<"entry_points", n>>, module.entry_points[n].function) :
                   n \in DOMAIN module.entry_points}
    \cup UNION {FunctionPositions(<<"functions", n>>, module.functions[n]) :
                   n \in DOMAIN module.functions}
\* the entities with a defect
Defects == {v \in Positions : DefectAt(v.arena, v.owner, v.handle)}
\* the pass a visit is made in
Pass(v) == IF v.owner = <<>> THEN v.arena ELSE v.owner[1]

\* the only two defects of the module are one inside a named function and one
\* inside the function of an entry point
TwoDefects ==
    /\ Cardinality(Defects) = 2
    /\ \E v \in Defects : Pass(v) = "functions"
    /\ \E v \in Defects : Pass(v) = "entry_points"

PassRank(v) ==
    CASE Pass(v) = "types" -> 1
      [] Pass(v) = "constants" -> 2
      [] Pass(v) = "global_variables" -> 3
      [] Pass(v) = "entry_points" -> 4
      [] Pass(v) = "functions" -> 5

C9_DefectiveTypeReported ==
    (Done /\ \E k \in DOMAIN module.types : TypeDefect(k, module.types[k])) =>
        /\ result.kind = "ForwardDependency"
        /\ LastVisit.arena = "types"
        /\ TypeDefect(LastVisit.handle, module.types[LastVisit.handle])
        /\ \A k \in 1..(LastVisit.handle - 1) : ~TypeDefect(k, module.types[k])

\* C10: fail-fast in ascending handle order: when entities are defective,
\* validation returns the error of the defective entity with the smallest
\* handle of its arena, every entity visited before it has passed, and no
\* entity after it, in that arena or in a later one, is visited.
C10_SmallestDefectReported ==
    (Done /\ Defects # {}) =>
        /\ IsError(result)
        /\ LastVisit \in Defects
        /\ \A v \in Defects :
              (v.arena = LastVisit.arena /\ v.owner = LastVisit.owner)
                  => v.handle >= LastVisit.handle
        /\ \A k \in DOMAIN visited :
              /\ k < Len(visited) => visited[k] \notin Defects
              /\ PassRank(visited[k]) <= PassRank(LastVisit)
              /\ (visited[k].arena = LastVisit.arena /\ visited[k].owner = LastVisit.owner)
                    => visited[k].handle <= LastVisit.handle

(***************************************************************************)
(* validate_module_handles as a function of the module: the result of the  *)
(* chain of try_for_each(..)? calls, in the order of the source.           *)
(***************************************************************************)
\* the closure validate_expressions
validate_expressions(m, expressions, local_variables) ==
    Try([k \in 1..Len(expressions) |->
            validate_expression_entry(m, local_variables, k, expressions[k])])

\* the closure validate_function
validate_function(m, function) ==
    Try(<<Try([k \in 1..Len(function.local_variables) |->
                  validate_local_variable_entry(m, function.local_variables[k])]),
          validate_expressions(m, function.expressions, function.local_variables)>>)

validate_module_handles(m) ==
    Try(<<Try([k \in 1..Len(m.types) |-> validate_type_entry(k, m.types[k])]),
          Try([k \in 1..Len(m.constants) |->
                  validate_constant_entry(m, k, m.constants[k])]),
          Try([k \in 1..Len(m.global_variables) |->
                  validate_global_variable_entry(m, m.global_variables[k])]),
          Try([k \in 1..Len(m.entry_points) |->
                  validate_function(m, m.entry_points[k].function)]),
          Try([k \in 1..Len(m.functions) |-> validate_function(m, m.functions[k])])>>)

\* C11: idempotence and determinism: the result of validating a module is a
\* function of the module's contents only, so that validating the same
\* unmutated module again yields the same result (Ok, or the same error with
\* the same subject and dependency handles and descriptions).
C11_ResultIsFunctionOfModule == Done => result = validate_module_handles(module)

\* validation has ended with a forward-dependency error, the one the module
\* determines
C11_Witness ==
    /\ Done
    /\ result.kind = "ForwardDependency"
    /\ Len(visited) >= 2
    /\ result = validate_module_handles(module)

\* C12: validation is read-only: no step of validate_module_handles, on the
\* way to Ok or to an error, changes the module; every arena keeps the same
\* entities in the same order.
C12_ModuleUnchanged == [][module' = module]_vars

\* validation has ended with an error after visiting entities of a module
\* that has types, constants, global variables and a function with local
\* variables and expressions
C12_Witness ==
    /\ Done
    /\ IsError(result)
    /\ module.types # <<>> /\ module.constants # <<>> /\ module.global_variables # <<>>
    /\ \E fn \in FunctionsOf(module) : fn.local_variables # <<>> /\ fn.expressions # <<>>
    /\ LastVisit.arena = "expressions"

\* no entity is visited twice
VisitedOnce == \A j, k \in DOMAIN visited : j # k => visited[j] # visited[k]

\* C13: validation ends with either Ok or exactly one error, in a single pass
\* in which each entity of each arena is visited at most once, and exactly
\* once when the result is Ok.
C13_EndsWithOkOrOneError ==
    /\ VisitedOnce
    /\ Range(visited) \subseteq Positions
    /\ Done =>
          /\ result = Ok \/ IsError(result)
          /\ result = Ok => Range(visited) = Positions

\* the same-arena dependencies of a visited entity that are not strictly below it
BrokenDeps(v) == {k \in DOMAIN VisitDeps(v) : VisitDeps(v)[k] >= v.handle}

\* C14: chained checks follow declaration order: when several same-arena
\* dependencies of an entity are broken, the forward-dependency error names
\* the first broken one in declaration order.
C14_ErrorNamesFirstBrokenDependency ==
    (EndedOnForwardRef /\ Cardinality(BrokenDeps(LastVisit)) >= 2) =>
        /\ result.kind = "ForwardDependency"
        /\ result.depends_on.handle =
              FirstForwardRef(LastVisit.handle, VisitDeps(LastVisit))

\* the last entity visited is an ImageSample expression
EndedOnImageSample ==
    /\ Done
    /\ visited # <<>>
    /\ LastVisit.arena = "expressions"
    /\ VisitArena(LastVisit)[LastVisit.handle].tag = "ImageSample"
LastExpression == VisitArena(LastVisit)[LastVisit.handle]
OffsetDangles(e) == \E c \in Range(e.offset) : ~InRange(c, module.constants)

\* the description of the first operand of an ImageSample that is not
\* strictly below the expression, in the order image, sampler, coordinate,
\* array index, depth reference
FirstBrokenOperand(h, e) ==
    CASE e.image >= h -> "image"
      [] e.image < h /\ e.sampler >= h -> "sampler"
      [] e.image < h /\ e.sampler < h /\ e.coordinate >= h -> "coordinate"
      [] e.image < h /\ e.sampler < h /\ e.coordinate < h
         /\ ForwardRef(h, e.array_index) -> "array index"
      [] OTHER -> "depth reference"

\* C15 as stated: for an ImageSample the existence check on the offset
\* constant is made after the ordering checks: an ImageSample whose image
\* operand is a forward reference and whose offset constant is out of range is
\* reported with the forward-dependency error on the image.
C15_ImageReportedBeforeOffset ==
    (EndedOnImageSample /\ LastExpression.image >= LastVisit.handle
        /\ OffsetDangles(LastExpression)) =>
            /\ result.kind = "ForwardDependency"
            /\ result.depends_on.description.kind = "image"

\* C15, amended: for an ImageSample the existence check on the offset
\* constant, if present, is made first, then the ordering checks on image,
\* sampler, coordinate, array index and depth reference in that order: an
\* ImageSample whose offset constant is out of range is reported with the
\* bad-handle error on the offset, whatever its operands; one whose offset
\* passes and that has a broken operand is not accepted, and a
\* forward-dependency error returned for it describes the first broken operand.
C15_OffsetReportedFirst ==
    EndedOnImageSample =>
        /\ OffsetDangles(LastExpression) =>
              result = BadHandle("constants", LastExpression.offset[1])
        /\ (~OffsetDangles(LastExpression)
            /\ ForwardRef(LastVisit.handle, ExpressionDeps(LastExpression))) =>
              /\ result.kind \in {"ForwardDependency", "Panic"}
              /\ result.kind = "ForwardDependency" =>
                    result.depends_on.description.kind =
                        FirstBrokenOperand(LastVisit.handle, LastExpression)

\* an ImageSample whose image is a forward reference and whose offset is out
\* of range has been reported with the bad-handle error on the offset
C15_Witness ==
    /\ EndedOnImageSample
    /\ LastExpression.image >= LastVisit.handle
    /\ OffsetDangles(LastExpression)
    /\ result = BadHandle("constants", LastExpression.offset[1])

\* C16: for a composite constant the existence check on its type is made
\* before the ordering checks on its components: a composite constant with an
\* out-of-range type handle is reported with the bad-handle error for the
\* type, whatever its components, and a component ordering failure is reported
\* only for a constant whose type exists.
C16_TypeCheckedBeforeComponents ==
    /\ \A k \in DOMAIN visited :
          (visited[k].arena = "constants"
           /\ ConstantDangles(module, module.constants[visited[k].handle])) =>
              /\ Done
              /\ k = Len(visited)
              /\ result = BadHandle("types", module.constants[visited[k].handle].inner.ty)
    /\ (Done /\ visited # <<>> /\ LastVisit.arena = "constants"
        /\ result.kind \in {"ForwardDependency", "Panic"}) =>
              ~ConstantDangles(module, module.constants[LastVisit.handle])

\* a composite constant with an out-of-range type and a component that is not
\* below it has been reported with the bad-handle error for the type
C16_Witness ==
    /\ Done
    /\ visited # <<>>
    /\ LastVisit.arena = "constants"
    /\ ConstantDangles(module, module.constants[LastVisit.handle])
    /\ ForwardRef(LastVisit.handle, ConstantDeps(module.constants[LastVisit.handle]))
    /\ result = BadHandle("types", module.constants[LastVisit.handle].inner.ty)

\* the function or entry point function a visit is made in has a local
\* variable with an out-of-range type or initializer handle
HasDanglingLocal(v) ==
    \E k \in DOMAIN VisitFunction(v).local_variables :
        VariableDangles(module, VisitFunction(v).local_variables[k])
HasDefectiveExpression(v) ==
    \E k \in DOMAIN VisitFunction(v).expressions :
        ExpressionDefect(module, VisitFunction(v), k, VisitFunction(v).expressions[k])

\* C17: within one function, named or of an entry point, the whole
\* local-variable arena is validated before any expression: no local variable
\* is visited after an expression of the same function, and a function that
\* has a local variable with an out-of-range type or initializer handle is
\* reported with that local variable's bad-handle error whatever its
\* expressions are, none of which is visited.
C17_LocalVariablesBeforeExpressions ==
    /\ \A j, k \in DOMAIN visited :
          (j < k /\ visited[j].owner # <<>> /\ visited[j].owner = visited[k].owner
           /\ visited[j].arena = "expressions") => visited[k].arena = "expressions"
    /\ \A k \in DOMAIN visited :
          (visited[k].owner # <<>> /\ HasDanglingLocal(visited[k])) =>
              /\ visited[k].arena = "local_variables"
              /\ Done =>
                    /\ LastVisit.owner = visited[k].owner
                    /\ VariableDangles(module,
                           VisitFunction(LastVisit).local_variables[LastVisit.handle])
                    /\ result.kind = "Bad"
                    /\ result.arena \in {"types", "constants"}

\* an entry point function with a dangling local variable and a defective
\* expression has been reported with the bad-handle error of the local variable
C17_Witness ==
    /\ Done
    /\ visited # <<>>
    /\ LastVisit.owner # <<>>
    /\ LastVisit.owner[1] = "entry_points"
    /\ HasDanglingLocal(LastVisit)
    /\ HasDefectiveExpression(LastVisit)
    /\ LastVisit.arena = "local_variables"
    /\ result.kind = "Bad"

\* the visit k was of an entity on which the closure returned Ok
Passed(k) == ~(Done /\ k = Len(visited) /\ result # Ok)
\* the visit k was of an entity on which the closure returned r, ending validation
FailedWith(k, r) == Done /\ k = Len(visited) /\ result = r
VisitedExpression(k) == VisitFunction(visited[k]).expressions[visited[k].handle]
IsVisitOf(k, tag) ==
    visited[k].arena = "expressions" /\ VisitedExpression(k).tag = tag

\* C18: a LocalVariable expression is checked for existence only, against
\* the local-variable arena of its own function: it passes for every handle
\* within that arena's populated range, whatever the ordinals of the local
\* variable and of the expression, and otherwise fails with the bad-handle
\* error for that handle, even if another function has such a local variable.
C18_LocalVariableExistenceOnly ==
    \A k \in DOMAIN visited :
        IsVisitOf(k, "LocalVariable") =>
            LET h == VisitedExpression(k).local_variable
            IN  IF InRange(h, VisitFunction(visited[k]).local_variables)
                THEN Passed(k)
                ELSE FailedWith(k, BadHandle("local_variables", h))

\* A LocalVariable expression whose local variable has a greater ordinal than
\* its own has passed, and one of another function has failed on a handle
\* that is within the first function's local-variable arena.
C18_Witness ==
    /\ Done
    /\ \E j, k \in DOMAIN visited :
          /\ j < k
          /\ IsVisitOf(j, "LocalVariable")
          /\ VisitedExpression(j).local_variable > visited[j].handle
          /\ IsVisitOf(k, "LocalVariable")
          /\ visited[k].owner # visited[j].owner
          /\ InRange(VisitedExpression(k).local_variable,
                     VisitFunction(visited[j]).local_variables)
          /\ result = BadHandle("local_variables", VisitedExpression(k).local_variable)

\* C19: a CallResult expression is checked for existence only, against the
\* module's functions arena: inside a named function or an entry point,
\* CallResult(g) passes for every g within the functions arena's populated
\* range, the handle of the calling function and those of later functions
\* included, and otherwise fails with the bad-handle error for g.
C19_CallResultExistenceOnly ==
    \A k \in DOMAIN visited :
        IsVisitOf(k, "CallResult") =>
            LET g == VisitedExpression(k).function
            IN  IF InRange(g, module.functions)
                THEN Passed(k)
                ELSE FailedWith(k, BadHandle("functions", g))

\* validation has returned Ok for a module in which an entry point calls a
\* function and a named function calls a later function
C19_Witness ==
    /\ Done
    /\ result = Ok
    /\ \E j, k \in DOMAIN visited :
          /\ IsVisitOf(j, "CallResult")
          /\ visited[j].owner[1] = "entry_points"
          /\ IsVisitOf(k, "CallResult")
          /\ visited[k].owner[1] = "functions"
          /\ VisitedExpression(k).function > visited[k].owner[2]

\* every same-arena dependency of the entities of an arena is within the
\* populated range of that arena
DepsInRange(arena, deps) ==
    \A k \in DOMAIN arena : \A d \in Range(deps[k]) : InRange(d, arena)

\* C20: in every module for which validation returns Ok, each same-arena
\* dependency handle that passed an ordering check (type base, struct member
\* type, constant component, expression operand) lies within the populated
\* range of its arena, although no existence check is made on it.
C20_OkMeansDependenciesExist ==
    (Done /\ result = Ok) =>
        /\ DepsInRange(module.types, [k \in DOMAIN module.types |-> TypeDeps(module.types[k])])
        /\ DepsInRange(module.constants,
                       [k \in DOMAIN module.constants |-> ConstantDeps(module.constants[k])])
        /\ \A fn \in FunctionsOf(module) :
              DepsInRange(fn.expressions,
                          [k \in DOMAIN fn.expressions |-> ExpressionDeps(fn.expressions[k])])

\* validation has returned Ok for a module with an expression of several
\* operands as the last entity of its arena
C20_Witness ==
    /\ Done
    /\ result = Ok
    /\ \E fn \in FunctionsOf(module) :
          /\ fn.expressions # <<>>
          /\ Len(ExpressionDeps(fn.expressions[Len(fn.expressions)])) >= 2

\* a function without the fields validate_function never reads: its name,
\* arguments, result, named expressions and body
Anonymous(function) == Plain(function.local_variables, function.expressions)

\* the module in which every function and entry point function is replaced by
\* its local variables and expressions alone
Stripped(m) ==
    [m EXCEPT !.functions = [k \in DOMAIN m.functions |-> Anonymous(m.functions[k])],
              !.entry_points = [k \in DOMAIN m.entry_points |->
                                   EntryPoint(Anonymous(m.entry_points[k].function))]]

\* C21: the validation result does not depend on the name, arguments, result
\* type, named expressions or body of any function or entry point: it is the
\* result for the module that has only the local variables and expressions of
\* each function, so two modules that differ only in those fields yield the
\* same result.
C21_ResultIgnoresSignature == Done => result = validate_module_handles(Stripped(module))

\* validation has ended with an error for a module that has a function with
\* a name, arguments and a result type that is out of range
C21_Witness ==
    /\ Done
    /\ IsError(result)
    /\ \E fn \in FunctionsOf(module) :
          /\ fn.name # None
          /\ fn.arguments # <<>>
          /\ \E ty \in Range(fn.result) : ~InRange(ty, module.types)
    /\ result = validate_module_handles(Stripped(module))

(***************************************************************************)
(* The xtask file visitor (xtask/src/glob.rs, result.rs) and the validate  *)
(* subcommand (xtask/src/main.rs).  An anyhow::Result is a record with the *)
(* field ok and, when ok, the value.  A glob entry gives the result of the *)
(* glob iteration for it, of its metadata lookup and what the callback     *)
(* does on it: the results it logs itself, then the result it returns.     *)
(***************************************************************************)
AnyhowOk(t) == [ok |-> TRUE, value |-> t]
AnyhowErr == [ok |-> FALSE]

\* log_if_err with the flag set to whether the result is an error
log_if_err_overwriting(self, flag) ==
    IF self.ok THEN [option |-> Some(self.value), found_err |-> FALSE]
    ELSE [option |-> None, found_err |-> TRUE]

\* LogIfError::log_if_err: the Option returned and the flag afterwards
log_if_err(self, flag) ==
    IF self.ok THEN [option |-> Some(self.value), found_err |-> flag]
    ELSE [option |-> None, found_err |-> TRUE]

MaxFiles == 2
MaxItems == 1

Results == {AnyhowOk("()"), AnyhowErr}
\* what a callback logs through its own found_err argument before it returns
ItemLists == UNION {[1..n -> Results] : n \in 0..MaxItems}
GlobError == [path_res |-> AnyhowErr]
MetadataError == [path_res |-> AnyhowOk("path"), metadata |-> AnyhowErr]
Directory == [path_res |-> AnyhowOk("path"), metadata |-> AnyhowOk("dir")]
RegularFile(items, r) ==
    [path_res |-> AnyhowOk("path"), metadata |-> AnyhowOk("file"),
     callback |-> [items |-> items, result |-> r]]
Entries ==
    {GlobError, MetadataError, Directory}
    \cup {RegularFile(items, r) : items \in ItemLists, r \in Results}
SimpleEntries == {GlobError} \cup {RegularFile(<<>>, r) : r \in Results}

\* the sequences of at most n elements of S
SeqsUpTo(S, n) == UNION {[1..k -> S] : k \in 0..n}

\* The validate subcommands: whether a tool is looked up with which(..)? first
\* and what it gives, and the entries of the glob of each visit_files call.
\* spirv and wgsl look no tool up; glsl makes three visit_files calls.
Subcommand(which, globs) == [which |-> which, globs |-> globs]
OneGlobSubcommands ==
    {Subcommand(w, <<l>>) : w \in {"none", "found", "missing"},
                            l \in SeqsUpTo(Entries, MaxFiles)}
GlslSubcommands ==
    {Subcommand(w, <<l1, l2, l3>>) :
        w \in {"found", "missing"},
        l1 \in SeqsUpTo(SimpleEntries, 1),
        l2 \in SeqsUpTo(SimpleEntries, 1),
        l3 \in SeqsUpTo(SimpleEntries, 1)}
IsSubcommand(c) ==
    \/ c \in OneGlobSubcommands
    \/ c \in GlslSubcommands

\* the results the callback logs with log_if_err(found_err), in order
RECURSIVE log_items(_, _)
log_items(items, flag) ==
    IF items = <<>> THEN flag
    ELSE log_items(Tail(items), log_if_err(Head(items), flag).found_err)

\* the callback f(&path, found_err): the result it returns and the flag
\* afterwards
callback(entry, flag) ==
    [result |-> entry.callback.result,
     found_err |-> log_items(entry.callback.items, flag)]

\* the closure given to for_each in visit_files: the flag afterwards and
\* whether the callback was called
visit_entry(entry, flag) ==
    LET path == log_if_err(entry.path_res, flag)
    IN  IF path.option = None
        THEN [found_err |-> path.found_err, called |-> FALSE]
        ELSE LET m == log_if_err(entry.metadata, path.found_err)
                 is_file == IF m.option = None THEN FALSE ELSE m.option[1] = "file"
             IN  IF ~is_file
                 THEN [found_err |-> m.found_err, called |-> FALSE]
                 ELSE LET c == callback(entry, m.found_err)
                      IN  [found_err |-> log_if_err(c.result, c.found_err).found_err,
                           called |-> TRUE]

\* run(args) for Subcommand::Validate, from let mut found_err = false
XtaskInit ==
    /\ module = Module(<<>>, <<>>, <<>>, <<>>, <<>>)
    /\ pc = "idle"
    /\ f = 1
    /\ sub = "-"
    /\ i = 1
    /\ result = Running
    /\ visited = <<>>
    /\ IsSubcommand(subcommand)
    /\ xpc = "which"
    /\ glob_index = 1
    /\ entry_index = 1
    /\ found_err = FALSE
    /\ called = <<>>
    /\ returned = "-"

\* which(tool)?: run returns the error when the tool is not found
Which ==
    /\ xpc = "which"
    /\ IF subcommand.which = "missing"
       THEN /\ returned' = "Err"
            /\ xpc' = "returned"
       ELSE /\ xpc' = "visit_files"
            /\ UNCHANGED returned
    /\ UNCHANGED <<subcommand, glob_index, entry_index, found_err, called>>
    /\ UNCHANGED handle_vars

\* visit_files: one call of the for_each closure, or the end of the glob
VisitFiles ==
    /\ xpc = "visit_files"
    /\ glob_index <= Len(subcommand.globs)
    /\ IF entry_index <= Len(subcommand.globs[glob_index])
       THEN LET v == visit_entry(subcommand.globs[glob_index][entry_index], found_err)
            IN  /\ found_err' = v.found_err
                /\ called' = IF v.called THEN Append(called, <<glob_index, entry_index>>)
                              ELSE called
                /\ entry_index' = entry_index + 1
                /\ UNCHANGED glob_index
       ELSE /\ glob_index' = glob_index + 1
            /\ entry_index' = 1
            /\ UNCHANGED <<found_err, called>>
    /\ UNCHANGED <<subcommand, xpc, returned>>
    /\ UNCHANGED handle_vars

\* ensure!(!found_err, ..); Ok(())
Ensure ==
    /\ xpc = "visit_files"
    /\ glob_index > Len(subcommand.globs)
    /\ returned' = IF found_err THEN "Err" ELSE "Ok"
    /\ xpc' = "returned"
    /\ UNCHANGED <<subcommand, glob_index, entry_index, found_err, called>>
    /\ UNCHANGED handle_vars

XtaskNext ==
    \/ Which
    \/ VisitFiles
    \/ Ensure

XtaskSpec == XtaskInit /\ [][XtaskNext]_vars

(***************************************************************************)
(* Properties of the xtask file visitor.                                   *)
(***************************************************************************)
\* the places of the glob entries of the subcommand: <<glob, entry>>
GlobPositions ==
    UNION {{<<g, e>> : e \in 1..Len(subcommand.globs[g])} :
           g \in 1..Len(subcommand.globs)}
EntryAt(p) == subcommand.globs[p[1]][p[2]]
\* the for_each closure has run on the entry at p
Processed(p) ==
    \/ p[1] < glob_index
    \/ p[1] = glob_index /\ p[2] < entry_index
IsRegularFile(entry) ==
    /\ entry.path_res.ok
    /\ entry.metadata.ok
    /\ entry.metadata.value = "file"
\* the glob step, the metadata step or the callback of the entry failed
StepFailed(entry) ==
    \/ ~entry.path_res.ok
    \/ entry.path_res.ok /\ ~entry.metadata.ok
    \/ /\ IsRegularFile(entry)
       /\ \/ ~entry.callback.result.ok
          \/ \E k \in 1..Len(entry.callback.items) : ~entry.callback.items[k].ok

\* C22: the visitor accumulates errors: the callback has been called on
\* exactly the regular files visited so far, once each, whatever failed
\* before them; found_err is true exactly when a step of a visited entry
\* failed; and once the tool was not missing, validate returns after every
\* entry was visited, with an error exactly when found_err is true.
C22_ErrorsAccumulate ==
    /\ found_err = (\E p \in GlobPositions : Processed(p) /\ StepFailed(EntryAt(p)))
    /\ \A p \in GlobPositions :
           (Processed(p) /\ IsRegularFile(EntryAt(p)))
               <=> (\E k \in 1..Len(called) : called[k] = p)
    /\ \A k, l \in 1..Len(called) : called[k] = called[l] => k = l
    /\ (returned # "-" /\ subcommand.which # "missing") =>
           /\ \A p \in GlobPositions : Processed(p)
           /\ (returned = "Err") = found_err

\* validate returned an error after a first entry failed and the callback
\* was then called, with success, on a regular file after it
C22_Witness ==
    /\ returned = "Err"
    /\ subcommand.which # "missing"
    /\ Len(subcommand.globs) = 1
    /\ Len(subcommand.globs[1]) = 2
    /\ StepFailed(subcommand.globs[1][1])
    /\ IsRegularFile(subcommand.globs[1][2])
    /\ ~StepFailed(subcommand.globs[1][2])
    /\ \E k \in 1..Len(called) : called[k] = <<1, 2>>
    /\ found_err
====
